---------------------------- MODULE Spec2Model ----------------------------
(***************************************************************************)
(* Rank History & Delta Analytics Engine (game-rank-analyzer).             *)
(*                                                                         *)
(* The repository is five batch scripts that talk through files under      *)
(* data/: fetch_ios_rss.py (ingestion, date index, deltas),                *)
(* analyze_rank_movers.py (movers), fetch_app_updates.py (update events),  *)
(* sync_overrides.py (override merge) and the two classify_games scripts   *)
(* (category resolution).  Each script is a sequential run; the module     *)
(* gives one specification per script group over the files they share.     *)
(*                                                                         *)
(* The module is ASCII only.  The seven category literals of the source    *)
(* are rendered in English, in the source's order; in the keyword lists    *)
(* a non-ASCII character is written as one token "U+XXXX".  A text is a    *)
(* sequence of one-character strings, so that lower(), strip() and the     *)
(* substring test `k in s` are computed and not assumed.                   *)
(***************************************************************************)
EXTENDS Integers, Sequences, FiniteSets, TLC

VARIABLES
    game_types,     \* data/game_types.json: app_id -> category
    overrides,      \* the override map merged by the latest sync_overrides run
    replaced,       \* the app_ids whose cached category that sync replaced
    layout,         \* data/ranks/: the folders in iterdir() order, each the
                    \* sequence of its *.json files in sorted order
    classified,     \* the *_classified.json files the latest classify run
                    \* wrote: <<folder, file>> -> rows (no script reads them)
    aiCalls,        \* app_id -> external classifier calls over all runs
    runs,           \* script runs so far (sync and classify)
    lastRun,        \* what the latest classify run started from and did
    dates,          \* available_dates_<cc>.json of one country, as written
    ranks,          \* the snapshot files of that country:
                    \* <<platform, date>> -> rows (one chart)
    latest,         \* data/latest/: platform -> the payload written last
    lastIngest,     \* the group ingested last and the index it started from
    ingests,        \* groups ingested so far
    inserted,       \* the dates update_available_dates was ever called with
    rank_files,     \* data/ranks/<cc>/ as the two analysis scripts find it:
                    \* <<platform, chart, date>> -> content of the file
    available_dates,\* available_dates_<cc>.json as they find it
    all_results,    \* the movers_<date>.json files analyze_rank_movers.py
                    \* wrote: <<date, platform, chart>> -> movers
    moversRun,      \* "idle" before that script has run, "done" after
    update_files,   \* updates_<date>.json:
                    \* <<date, platform, chart>> -> app_name -> event
    metadata_files, \* metadata_cache_<date>.json, keyed alike
    update_results, \* the events the run of fetch_app_updates.py emitted
    lookups,        \* what the metadata lookup answered in that run
    update_units,   \* the units <<today, yesterday, platform, chart>> that
                    \* run called process_date_pair for, in order
    updatesRun      \* "idle" before that script has run, "done" after

classifyVars == <<game_types, overrides, replaced, layout, classified,
                  aiCalls, runs, lastRun>>

ingestVars == <<dates, ranks, latest, lastIngest, ingests, inserted>>

analysisFiles == <<rank_files, available_dates>>

moversVars == <<all_results, moversRun>>

updatesVars == <<update_files, metadata_files, update_results, lookups,
                 update_units, updatesRun>>

vars == <<classifyVars, ingestVars, analysisFiles, moversVars, updatesVars>>

notClassifyVars == <<ingestVars, analysisFiles, moversVars, updatesVars>>

notIngestVars == <<classifyVars, analysisFiles, moversVars, updatesVars>>

notMoversVars == <<classifyVars, ingestVars, analysisFiles, updatesVars>>

notUpdatesVars == <<classifyVars, ingestVars, analysisFiles, moversVars>>

None == "None"

\* Body applied to the value of e, which is computed once
With(e, Body(_)) == CHOOSE y \in {Body(x) : x \in {e}} : TRUE

----------------------------------------------------------------------------
(* Texts *)

\* str.lower() on the characters the model uses
Lower(c) ==
    CASE c = "W" -> "w"
      [] c = "R" -> "r"
      [] c = "P" -> "p"
      [] c = "G" -> "g"
      [] c = "F" -> "f"
      [] c = "S" -> "s"
      [] c = "C" -> "c"
      [] OTHER -> c

LowerStr(s) == [i \in 1..Len(s) |-> Lower(s[i])]

\* Python's `k in s` on strings: k is a contiguous substring of s
Contains(k, s) ==
    \E i \in 1..(Len(s) - Len(k) + 1) : SubSeq(s, i, i + Len(k) - 1) = k

AnyIn(keys, s) == \E k \in keys : Contains(k, s)

\* str.strip(): drop leading and trailing whitespace
RECURSIVE LStrip(_)
LStrip(s) == IF s # <<>> /\ Head(s) = " " THEN LStrip(Tail(s)) ELSE s

RECURSIVE RStrip(_)
RStrip(s) ==
    IF s # <<>> /\ s[Len(s)] = " " THEN RStrip(SubSeq(s, 1, Len(s) - 1)) ELSE s

Strip(s) == RStrip(LStrip(s))

----------------------------------------------------------------------------
(* classify_games: the category set, the heuristic and the response parse *)

\* "RolePlaying" .. "Other" stand for the seven literals of the source list
AI_CATEGORIES ==
    <<"RolePlaying", "SocialCasino", "StrategyBattle", "ActionCompetitive",
      "SimulationSandbox", "CasualPuzzle", "Other">>

CategorySet == {AI_CATEGORIES[i] : i \in 1..Len(AI_CATEGORIES)}

GenreRpgKeys ==
    {<<"r", "p", "g">>,
     <<"a", "d", "v", "e", "n", "t", "u", "r", "e">>,
     <<"r", "o", "l", "e">>}

CasinoKeys ==
    {<<"c", "a", "s", "i", "n", "o">>,
     <<"p", "o", "k", "e", "r">>,
     <<"s", "l", "o", "t">>,
     <<"U+8CED", "U+5834">>}

StrategyKeys ==
    {<<"s", "t", "r", "a", "t", "e", "g", "y">>,
     <<"w", "a", "r">>,
     <<"c", "l", "a", "s", "h">>,
     <<"e", "m", "p", "i", "r", "e">>,
     <<"U+5C0D", "U+6230">>,
     <<"U+6230", "U+9B25">>}

ActionKeys ==
    {<<"a", "c", "t", "i", "o", "n">>,
     <<"b", "a", "t", "t", "l", "e">>,
     <<"s", "h", "o", "o", "t", "e", "r">>,
     <<"m", "o", "b", "a">>,
     <<"U+52D5", "U+4F5C">>,
     <<"U+7AF6", "U+6280">>}

SimKeys ==
    {<<"s", "i", "m">>,
     <<"t", "y", "c", "o", "o", "n">>,
     <<"f", "a", "r", "m">>,
     <<"c", "i", "t", "y">>,
     <<"U+6A21", "U+64EC">>,
     <<"U+6C99", "U+76D2">>}

PuzzleKeys ==
    {<<"m", "e", "r", "g", "e">>,
     <<"m", "a", "t", "c", "h">>,
     <<"p", "u", "z", "z", "l", "e">>,
     <<"i", "d", "l", "e">>,
     <<"U+4F11", "U+9592">>,
     <<"U+76CA", "U+667A">>}

\* the heuristic of "classify_games .py": first matching branch wins
classify_game_on(name, genre) ==
    IF AnyIn(GenreRpgKeys, genre) THEN "RolePlaying"
    ELSE IF AnyIn(CasinoKeys, name) THEN "SocialCasino"
    ELSE IF AnyIn(StrategyKeys, name) THEN "StrategyBattle"
    ELSE IF AnyIn(ActionKeys, name) THEN "ActionCompetitive"
    ELSE IF AnyIn(SimKeys, name) THEN "SimulationSandbox"
    ELSE IF AnyIn(PuzzleKeys, name) THEN "CasualPuzzle"
    ELSE "Other"

classify_game(app) ==
    With(LowerStr(app.app_name), LAMBDA name :
        With(LowerStr(app.genre), LAMBDA genre :
            classify_game_on(name, genre)))

(* A classifier response is a text in which a category literal is one     *)
(* token (no literal is a substring of another, so `category in text` is  *)
(* the occurrence of its token); "txt" is text that holds no literal.     *)
Digits == {"0", "1", "2", "3", "4", "5", "6", "7", "8", "9"}

RECURSIVE LeadingDigits(_)
LeadingDigits(s) ==
    IF s # <<>> /\ Head(s) \in Digits THEN 1 + LeadingDigits(Tail(s)) ELSE 0

\* re.sub(r"^\d+\.\s*", "", s)
DropNumPrefix(s) ==
    LET k == LeadingDigits(s)
    IN  IF k >= 1 /\ Len(s) > k /\ s[k + 1] = "."
        THEN LStrip(SubSeq(s, k + 2, Len(s)))
        ELSE s

\* the first category of AI_CATEGORIES that occurs in the text
RECURSIVE FirstCategoryIn(_, _)
FirstCategoryIn(i, text) ==
    IF i > Len(AI_CATEGORIES) THEN "Other"
    ELSE IF Contains(<<AI_CATEGORIES[i]>>, text) THEN AI_CATEGORIES[i]
    ELSE FirstCategoryIn(i + 1, text)

\* reply: [raised |-> the call raised, content |-> the message text]
get_ai_classification(client, reply) ==
    IF ~client THEN "Other"
    ELSE IF reply.raised THEN "Other"
    ELSE With(Strip(DropNumPrefix(Strip(reply.content))),
              LAMBDA cleaned_response :
                  IF /\ Len(cleaned_response) = 1
                     /\ cleaned_response[1] \in CategorySet
                  THEN cleaned_response[1]
                  ELSE FirstCategoryIn(1, cleaned_response))

----------------------------------------------------------------------------
(* classify_games.py: one run over data/ranks *)

Put(f, k, v) == [x \in DOMAIN f \cup {k} |-> IF x = k THEN v ELSE f[x]]

EmptyMap == [x \in {} |-> None]

\* a resolver that writes the cache on a hit as well (no such code)
classify_row_overwrite(acc, app, client, oracle) ==
    IF app.app_id \in DOMAIN acc.cache
    THEN [rows |-> Append(acc.rows,
                          [app EXCEPT !.ai_type = acc.cache[app.app_id]]),
          cache |-> Put(acc.cache, app.app_id, "Other"),
          updated |-> TRUE,
          calls |-> acc.calls]
    ELSE With(get_ai_classification(client, oracle[app.app_id]),
              LAMBDA ai_category :
                  [rows |-> Append(acc.rows,
                                   [app EXCEPT !.ai_type = ai_category]),
                   cache |-> Put(acc.cache, app.app_id, ai_category),
                   updated |-> TRUE,
                   calls |-> Append(acc.calls, app.app_id)])

\* lines 148-164: one row against the in-memory cache
classify_row(acc, app, client, oracle) ==
    IF app.app_id \in DOMAIN acc.cache
    THEN [acc EXCEPT !.rows = Append(@, [app EXCEPT !.ai_type =
                                                  acc.cache[app.app_id]])]
    ELSE With(get_ai_classification(client, oracle[app.app_id]),
              LAMBDA ai_category :
                  [rows |-> Append(acc.rows,
                                   [app EXCEPT !.ai_type = ai_category]),
                   cache |-> Put(acc.cache, app.app_id, ai_category),
                   updated |-> TRUE,
                   calls |-> Append(acc.calls, app.app_id)])

\* lines 145-167: the rows of one snapshot; updated is is_cache_updated
RECURSIVE RowLoop(_, _, _, _, _)
RowLoop(i, rows, acc, client, oracle) ==
    IF i > Len(rows) THEN acc
    ELSE With(classify_row(acc, rows[i], client, oracle),
              LAMBDA nxt : RowLoop(i + 1, rows, nxt, client, oracle))

ClassifyRows(rows, cache, client, oracle) ==
    RowLoop(1, rows,
            [rows |-> <<>>, cache |-> cache, updated |-> FALSE,
             calls |-> <<>>],
            client, oracle)

(* lines 118-193.  files: the folder's *.json in sorted order; a file    *)
(* with ok = FALSE is one the loop skips (not an ios_/gp_ snapshot,       *)
(* unreadable, or without a valid date).  ret is the local                *)
(* is_cache_updated: it is assigned at line 145, inside the loop, for     *)
(* every snapshot that is classified, and returned at line 193; until     *)
(* the first assignment it is unbound.                                    *)
Unbound == [bound |-> FALSE, value |-> FALSE]

Bound(b) == [bound |-> TRUE, value |-> b]

folder_step(f, i, file, acc, client, oracle) ==
    IF ~file.ok THEN acc
    ELSE With(ClassifyRows(file.rows, acc.cache, client, oracle),
              LAMBDA r :
                  [outs |-> Put(acc.outs, <<f, i>>, r.rows),
                   cache |-> r.cache,
                   ret |-> Bound(r.updated),
                   calls |-> acc.calls \o r.calls])

RECURSIVE FolderLoop(_, _, _, _, _, _)
FolderLoop(f, i, files, acc, client, oracle) ==
    IF i > Len(files) THEN acc
    ELSE With(folder_step(f, i, files[i], acc, client, oracle),
              LAMBDA nxt : FolderLoop(f, i + 1, files, nxt, client, oracle))

\* ret unbound: `return is_cache_updated` raises UnboundLocalError
process_country_folder(f, files, cache, client, oracle) ==
    FolderLoop(f, 1, files,
               [outs |-> EmptyMap, cache |-> cache, ret |-> Unbound,
                calls |-> <<>>],
               client, oracle)

Merge(f, g) ==
    [x \in DOMAIN f \cup DOMAIN g |-> IF x \in DOMAIN g THEN g[x] ELSE f[x]]

(* main, lines 212-226: folders is data/ranks in iterdir() order.         *)
(* An exception of process_country_folder leaves main (nothing catches    *)
(* it): the files written so far stay, the cache is not saved.            *)
main_step(acc, r) ==
    [outs |-> Merge(acc.outs, r.outs),
     cache |-> r.cache,
     calls |-> acc.calls \o r.calls,
     cache_needs_saving |->
         acc.cache_needs_saving \/ (r.ret.bound /\ r.ret.value),
     raised |-> ~r.ret.bound]

RECURSIVE MainLoop(_, _, _, _, _)
MainLoop(f, folders, acc, client, oracle) ==
    IF f > Len(folders) \/ acc.raised THEN acc
    ELSE With(process_country_folder(f, folders[f], acc.cache, client,
                                     oracle),
              LAMBDA r :
                  With(main_step(acc, r),
                       LAMBDA nxt : MainLoop(f + 1, folders, nxt, client,
                                             oracle)))

\* main saving the cache at the end of every run that gets there
classify_main_always_saves(folders, cache0, oracle) ==
    With(MainLoop(1, folders,
                  [outs |-> EmptyMap, cache |-> cache0, calls |-> <<>>,
                   cache_needs_saving |-> FALSE, raised |-> FALSE],
                  TRUE, oracle),
         LAMBDA r :
             [outs |-> r.outs,
              memory |-> r.cache,
              disk |-> IF ~r.raised THEN r.cache ELSE cache0,
              saved |-> ~r.raised,
              raised |-> r.raised,
              calls |-> r.calls])

\* the whole of main for a configured client; cache0 is game_types.json
classify_main(folders, cache0, oracle) ==
    With(MainLoop(1, folders,
                  [outs |-> EmptyMap, cache |-> cache0, calls |-> <<>>,
                   cache_needs_saving |-> FALSE, raised |-> FALSE],
                  TRUE, oracle),
         LAMBDA r :
             [outs |-> r.outs,
              memory |-> r.cache,
              disk |-> IF (~r.raised) /\ r.cache_needs_saving
                       THEN r.cache ELSE cache0,
              saved |-> (~r.raised) /\ r.cache_needs_saving,
              raised |-> r.raised,
              calls |-> r.calls])

----------------------------------------------------------------------------
(* "classify_games .py": override map, else the heuristic; no cache write *)

heuristic_rows(rows, override_map) ==
    [i \in 1..Len(rows) |->
        [rows[i] EXCEPT !.ai_type =
            IF rows[i].app_id \in DOMAIN override_map
            THEN override_map[rows[i].app_id]
            ELSE classify_game(rows[i])]]

\* main, lines 118-136: every folder, every snapshot the loop does not skip
heuristic_main(folders, override_map) ==
    LET done == UNION {{<<f, i>> : i \in {j \in 1..Len(folders[f]) :
                                              folders[f][j].ok}} :
                       f \in 1..Len(folders)}
    IN  [k \in done |-> heuristic_rows(folders[k[1]][k[2]].rows, override_map)]

----------------------------------------------------------------------------
(* sync_overrides.py *)

\* str(x or "").strip() on the raw field values the model uses
StrField(x) ==
    CASE x = None -> ""
      [] x = " W " -> "W"
      [] x = " Other " -> "Other"
      [] OTHER -> x

\* lines 45-56: the documents of the "overrides" collection, in stream order
RECURSIVE fetch_overrides(_)
fetch_overrides(docs) ==
    IF docs = <<>> THEN EmptyMap
    ELSE LET n == Len(docs)
             app_id == StrField(docs[n].app_id)
             category == StrField(docs[n].category)
         IN  With(fetch_overrides(SubSeq(docs, 1, n - 1)),
                  LAMBDA before :
                      IF app_id # "" /\ category # ""
                      THEN Put(before, app_id, category)
                      ELSE before)

\* a merge that keeps the local entry of an app_id it already holds
sync_merge_keep_local(local_types, fetched) ==
    [x \in DOMAIN local_types \cup DOMAIN fetched |->
        IF x \in DOMAIN local_types THEN local_types[x] ELSE fetched[x]]

\* lines 63-68: every fetched override replaces the local entry
sync_merge(local_types, fetched) ==
    [x \in DOMAIN local_types \cup DOMAIN fetched |->
        IF x \in DOMAIN fetched THEN fetched[x] ELSE local_types[x]]

----------------------------------------------------------------------------
(* The classification scripts as a state machine *)

MaxRuns == 3
MaxFolders == 2
MaxFiles == 2
MaxDocs == 1

AppW ==
    [app_id |-> "W", app_name |-> <<"W", "a", "r">>,
     genre |-> <<"G", "a", "m", "e", "s">>, ai_type |-> None]

AppV ==
    [app_id |-> "V", app_name |-> <<"F", "a", "r", "m">>,
     genre |-> <<"R", "P", "G">>, ai_type |-> None]

AppIds == {"W", "V"}

SeqsUpTo(S, n) == UNION {[1..k -> S] : k \in 0..n}

\* a snapshot the loop classifies, or a file it skips
FileChoices ==
    {[ok |-> TRUE, rows |-> <<AppW, AppV>>],
     [ok |-> FALSE, rows |-> <<>>]}

RECURSIVE TotalFiles(_)
TotalFiles(folders) ==
    IF folders = <<>> THEN 0 ELSE Len(Head(folders)) + TotalFiles(Tail(folders))

Layouts ==
    {l \in SeqsUpTo(SeqsUpTo(FileChoices, MaxFiles), MaxFolders) :
        TotalFiles(l) <= MaxFiles}

\* what the external classifier may answer for one app
Replies ==
    {[raised |-> FALSE, content |-> <<" ", "RolePlaying", " ">>],
     [raised |-> FALSE, content |-> <<"3", ".", " ", "StrategyBattle">>],
     [raised |-> FALSE,
      content |-> <<"txt", "StrategyBattle", " ", "RolePlaying">>],
     [raised |-> FALSE, content |-> <<"txt">>],
     [raised |-> TRUE, content |-> <<>>]}

\* the documents the override store may hold
OverrideDocs ==
    {[app_id |-> " W ", category |-> "CasualPuzzle"],
     [app_id |-> "W", category |-> "Puzzle"],
     [app_id |-> None, category |-> "CasualPuzzle"],
     [app_id |-> "W", category |-> None]}

RECURSIVE Count(_, _)
Count(x, seq) ==
    IF seq = <<>> THEN 0
    ELSE (IF Head(seq) = x THEN 1 ELSE 0) + Count(x, Tail(seq))

NoRun ==
    [kind |-> "none", added |-> {}, saved |-> FALSE, raised |-> FALSE,
     rerun |-> FALSE, same |-> FALSE, failed |-> {}, retried |-> TRUE,
     kept |-> TRUE]

InitClassify ==
    /\ game_types = EmptyMap
    /\ overrides = EmptyMap
    /\ replaced = {}
    /\ layout \in Layouts
    /\ classified = EmptyMap
    /\ aiCalls = [a \in AppIds |-> 0]
    /\ runs = 0
    /\ lastRun = NoRun

\* sync_overrides.main, lines 58-72
SyncOverrides ==
    /\ runs < MaxRuns
    /\ \E docs \in SeqsUpTo(OverrideDocs, MaxDocs) :
        \E fetched \in {fetch_overrides(docs)} :
            /\ game_types' = sync_merge(game_types, fetched)
            /\ overrides' = fetched
            /\ replaced' = {a \in DOMAIN fetched \cap DOMAIN game_types :
                                game_types[a] # fetched[a]}
    /\ runs' = runs + 1
    /\ lastRun' = [NoRun EXCEPT !.kind = "sync"]
    /\ UNCHANGED <<layout, classified, aiCalls, notClassifyVars>>

(* classify_games.main with OPENAI_API_KEY set.  oracle: what the         *)
(* external classifier answers in this run, for the apps it can be asked  *)
(* about (those the cache does not hold).  lastRun.rerun: the run         *)
(* directly follows another such run, so it starts from the snapshots and *)
(* the game_types.json that run left; lastRun.same: it then wrote the     *)
(* same classified files with the same rows.  lastRun.failed: the apps    *)
(* whose call raised in the run; lastRun.retried: the run called the      *)
(* classifier for every app whose call raised in the run before it;       *)
(* lastRun.kept: every entry game_types.json held when the run started is *)
(* in the run's in-memory cache and in the file afterwards, unchanged.    *)
ClassifyMain ==
    /\ runs < MaxRuns
    /\ \E oracle \in [AppIds \ DOMAIN game_types -> Replies] :
        \E r \in {classify_main(layout, game_types, oracle)} :
            /\ game_types' = r.disk
            /\ classified' = r.outs
            /\ aiCalls' = [a \in AppIds |-> aiCalls[a] + Count(a, r.calls)]
            /\ lastRun' =
                   [kind |-> "ai",
                    added |-> DOMAIN r.memory \ DOMAIN game_types,
                    saved |-> r.saved, raised |-> r.raised,
                    rerun |-> lastRun.kind = "ai",
                    same |-> r.outs = classified,
                    failed |-> {a \in DOMAIN oracle :
                                   /\ Count(a, r.calls) > 0
                                   /\ oracle[a].raised},
                    retried |-> \A a \in lastRun.failed :
                                    Count(a, r.calls) > 0,
                    kept |-> \A a \in DOMAIN game_types :
                                 /\ a \in DOMAIN r.memory
                                 /\ r.memory[a] = game_types[a]
                                 /\ a \in DOMAIN r.disk
                                 /\ r.disk[a] = game_types[a]]
    /\ runs' = runs + 1
    /\ UNCHANGED <<overrides, replaced, layout, notClassifyVars>>

\* classify_games.main without a client: lines 201-203 return at once
ClassifyMainNoClient ==
    /\ runs < MaxRuns
    /\ runs' = runs + 1
    /\ classified' = EmptyMap
    /\ lastRun' = [NoRun EXCEPT !.kind = "noclient"]
    /\ UNCHANGED <<game_types, overrides, replaced, layout, aiCalls, notClassifyVars>>

\* main of "classify_games .py"
ClassifyHeuristicMain ==
    /\ runs < MaxRuns
    /\ classified' = heuristic_main(layout, game_types)
    /\ lastRun' = [NoRun EXCEPT !.kind = "heuristic"]
    /\ runs' = runs + 1
    /\ UNCHANGED <<game_types, overrides, replaced, layout, aiCalls, notClassifyVars>>

NextClassify ==
    \/ SyncOverrides
    \/ ClassifyMain
    \/ ClassifyMainNoClient
    \/ ClassifyHeuristicMain

----------------------------------------------------------------------------
(* fetch_ios_rss.py: date index, predecessor lookup, deltas               *)
(*                                                                         *)
(* A date_str is strftime("%Y%m%d"): eight digits, zero padded, so the    *)
(* string order `d < date_str` of line 81 is the order of the numbers the *)
(* digits spell; a date_str is modelled as that number.                   *)

AvailableDatesCap == 50

\* sorted(set(dates), reverse=True): each date at the place that the
\* number of greater dates gives it
SortedDesc(S) ==
    With({<<Cardinality({y \in S : y > x}) + 1, x>> : x \in S},
         LAMBDA placed :
             [i \in 1..Cardinality(S) |-> (CHOOSE p \in placed : p[1] = i)[2]])

Range(seq) == {seq[i] : i \in 1..Len(seq)}

\* update_available_dates without the sort of line 143
update_available_dates_unsorted(old_dates, new_date) ==
    With(IF new_date \in Range(old_dates)
         THEN old_dates
         ELSE <<new_date>> \o old_dates,
         LAMBDA listed :
             SubSeq(listed, 1,
                    IF Len(listed) < AvailableDatesCap
                    THEN Len(listed) ELSE AvailableDatesCap))

\* update_available_dates, lines 131-146: the new content of the file
update_available_dates(old_dates, new_date) ==
    With(SortedDesc(Range(IF new_date \in Range(old_dates)
                          THEN old_dates
                          ELSE <<new_date>> \o old_dates)),
         LAMBDA sorted :
             SubSeq(sorted, 1,
                    IF Len(sorted) < AvailableDatesCap
                    THEN Len(sorted) ELSE AvailableDatesCap))

\* list.index: the first position of x, 0 when absent (ValueError)
IndexOf(seq, x) ==
    IF x \in Range(seq)
    THEN CHOOSE i \in 1..Len(seq) :
             seq[i] = x /\ \A j \in 1..(i - 1) : seq[j] # x
    ELSE 0

\* FirstBelow with the test `d != date_str` for `d < date_str`
FirstBelow_other(date_list, date_str) ==
    IF \E i \in 1..Len(date_list) : date_list[i] # date_str
    THEN date_list[CHOOSE i \in 1..Len(date_list) :
                       /\ date_list[i] # date_str
                       /\ \A j \in 1..(i - 1) : ~(date_list[j] # date_str)]
    ELSE 0

\* lines 80-83: the first entry below date_str, 0 when there is none
FirstBelow(date_list, date_str) ==
    IF \E i \in 1..Len(date_list) : date_list[i] < date_str
    THEN date_list[CHOOSE i \in 1..Len(date_list) :
                       /\ date_list[i] < date_str
                       /\ \A j \in 1..(i - 1) : ~(date_list[j] < date_str)]
    ELSE 0

\* lines 70-89: the predecessor date load_prev_rank settles on, 0 for None
prev_date_of(date_list, date_str) ==
    With(IndexOf(date_list, date_str),
         LAMBDA current_date_index :
             IF current_date_index > 0
             THEN IF current_date_index + 1 <= Len(date_list)
                  THEN date_list[current_date_index + 1]
                  ELSE 0
             ELSE FirstBelow(date_list, date_str))

\* {r["app_id"]: r["rank"] for r in rows}: a later row replaces an earlier
RankMap(rows) ==
    [a \in {rows[i].app_id : i \in 1..Len(rows)} |->
        rows[CHOOSE i \in 1..Len(rows) :
                 /\ rows[i].app_id = a
                 /\ \A j \in (i + 1)..Len(rows) : rows[j].app_id # a].rank]

NoMap == [found |-> FALSE, map |-> EmptyMap]

\* load_prev_rank, lines 60-101; files: the snapshot files on disk
load_prev_rank(platform, date_str, date_list, files) ==
    With(prev_date_of(date_list, date_str),
         LAMBDA prev_date_str :
             IF prev_date_str = 0 THEN NoMap
             ELSE IF <<platform, prev_date_str>> \notin DOMAIN files THEN NoMap
             ELSE [found |-> TRUE,
                   map |-> RankMap(files[<<platform, prev_date_str>>])])

\* row_delta with the difference taken the other way round
row_delta_flipped(prev_rank_map, r) ==
    IF r.app_id \in DOMAIN prev_rank_map
           /\ prev_rank_map[r.app_id] # 0 /\ r.rank # 0
    THEN r.rank - prev_rank_map[r.app_id]
    ELSE r.delta

\* lines 221-227: the delta of one row against the predecessor's ranks
row_delta(prev_rank_map, r) ==
    IF r.app_id \in DOMAIN prev_rank_map
           /\ prev_rank_map[r.app_id] # 0 /\ r.rank # 0
    THEN prev_rank_map[r.app_id] - r.rank
    ELSE r.delta

\* sorted(rows, key=lambda x: x["rank"] or 9999): a stable sort
SortKey(r) == IF r.rank = 0 THEN 9999 ELSE r.rank

RECURSIVE InsertSorted(_, _)
InsertSorted(sorted, r) ==
    IF sorted = <<>> THEN <<r>>
    ELSE IF SortKey(sorted[Len(sorted)]) <= SortKey(r) THEN Append(sorted, r)
    ELSE Append(InsertSorted(SubSeq(sorted, 1, Len(sorted) - 1), r),
                sorted[Len(sorted)])

RECURSIVE SortByRank(_)
SortByRank(rows) ==
    IF rows = <<>> THEN <<>>
    ELSE With(SortByRank(SubSeq(rows, 1, Len(rows) - 1)),
              LAMBDA sorted : InsertSorted(sorted, rows[Len(rows)]))

\* lines 215-227: the rows of one group, sorted and with their deltas
rows_with_delta(rows, prev) ==
    With(SortByRank(rows),
         LAMBDA sorted :
             IF prev.found /\ DOMAIN prev.map # {}
             THEN [i \in 1..Len(sorted) |->
                      [sorted[i] EXCEPT !.delta = row_delta(prev.map, sorted[i])]]
             ELSE sorted)

----------------------------------------------------------------------------
(* Ingestion as a state machine.  fetch_and_generate handles the groups   *)
(* of the sheet one after the other (lines 214-234) and carries nothing   *)
(* from one group to the next but the files, so a run is a sequence of    *)
(* IngestGroup steps, and so is a sequence of runs.                       *)

MaxIngests == 3

Platforms == {"ios", "gp"}

Dates == {20250101, 20250102, 20250103}

Row(app_id, rank) == [app_id |-> app_id, rank |-> rank, delta |-> 0]

\* the rows of one group in sheet order, as lines 195-205 build them;
\* rank 0 is what safe_int gives a row without a rank (line 193)
Snapshots ==
    {<<Row("X", 1), Row("Y", 2), Row("Z", 3)>>,
     <<Row("X", 3), Row("Y", 1)>>,
     <<Row("X", 0), Row("Y", 1)>>,
     <<Row("Y", 2)>>}

\* no group of the sheet ingested yet: no index, no snapshot files
NoIngest == [platform |-> None, date |-> 0, date_list |-> <<>>]

InitIngest ==
    /\ dates = <<>>
    /\ ranks = EmptyMap
    /\ latest = EmptyMap
    /\ lastIngest = NoIngest
    /\ ingests = 0
    /\ inserted = {}

\* fetch_and_generate, lines 214-234, for one group of the sheet
IngestGroup ==
    /\ ingests < MaxIngests
    /\ \E platform \in Platforms, date_str \in Dates, rows \in Snapshots :
        \E out \in {rows_with_delta(rows, load_prev_rank(platform, date_str,
                                                         dates, ranks))} :
            /\ dates' = update_available_dates(dates, date_str)
            /\ ranks' = Put(ranks, <<platform, date_str>>, out)
            /\ latest' = Put(latest, platform,
                             [date |-> date_str, rows |-> out])
            /\ lastIngest' = [platform |-> platform, date |-> date_str,
                              date_list |-> dates]
            /\ inserted' = inserted \cup {date_str}
    /\ ingests' = ingests + 1
    /\ UNCHANGED notIngestVars

NextIngest == IngestGroup

(* The same machine started with an index at its cap.  LaterDate(n): the  *)
(* n-th day counted from 1 February 2025, 28 days to a month.             *)
LaterDate(n) == 20250000 + (2 + ((n - 1) \div 28)) * 100 + ((n - 1) % 28) + 1

\* the k days from 1 February on, newest first
LaterDates(k) == [i \in 1..k |-> LaterDate(k + 1 - i)]

\* an index one short of the cap, and one at the cap whose oldest date is
\* the first of Dates
IndexPool ==
    {LaterDates(AvailableDatesCap - 1),
     LaterDates(AvailableDatesCap - 1) \o <<20250101>>}

\* two groups before the end of a run whose index holds date_list and
\* whose platforms have a snapshot of every date of the index
IndexStartOf(date_list) ==
    /\ dates = date_list
    /\ ranks = [k \in Platforms \X Range(date_list) |-> <<Row("Y", 2)>>]
    /\ latest = [p \in Platforms |->
                    [date |-> date_list[1], rows |-> <<Row("Y", 2)>>]]
    /\ lastIngest = NoIngest
    /\ ingests = MaxIngests - 2
    /\ inserted = Range(date_list)

InitIndex == \E date_list \in IndexPool : IndexStartOf(date_list)

----------------------------------------------------------------------------
(* analyze_rank_movers.py                                                 *)

MoverThreshold == 10

MoverLimit == 10

Abs(x) == IF x < 0 THEN -x ELSE x

NoData == [found |-> FALSE, rows |-> <<>>]

\* load_rank, lines 39-48: None for a missing file and for one json.load
\* cannot parse
load_rank(files, date_str, chart, platform) ==
    IF <<platform, chart, date_str>> \notin DOMAIN files THEN NoData
    ELSE IF ~files[<<platform, chart, date_str>>].ok THEN NoData
    ELSE [found |-> TRUE, rows |-> files[<<platform, chart, date_str>>].rows]

\* is_mover with the threshold exclusive
is_mover_strict(delta) == Abs(delta) > MoverThreshold

\* line 73
is_mover(delta) == Abs(delta) >= MoverThreshold

\* lines 74-78
mover_record(r, delta) ==
    [name |-> r.app_name, delta |-> delta,
     direction |-> IF delta > 0 THEN "rise" ELSE "fall"]

\* lines 67-73: the rows of today's snapshot the loop records
recorded(prev_map, r) ==
    /\ r.app_id \in DOMAIN prev_map
    /\ is_mover(prev_map[r.app_id] - r.rank)

\* lines 62-78: the loop appends a record for each such row, in row order
collect_movers(rows, prev_map) ==
    With(SelectSeq(rows, LAMBDA r : recorded(prev_map, r)),
         LAMBDA kept :
             [i \in 1..Len(kept) |->
                 mover_record(kept[i],
                              prev_map[kept[i].app_id] - kept[i].rank)])

RECURSIVE InsertMover(_, _)
InsertMover(sorted, m) ==
    IF sorted = <<>> THEN <<m>>
    ELSE IF Abs(sorted[Len(sorted)].delta) >= Abs(m.delta)
         THEN Append(sorted, m)
    ELSE Append(InsertMover(SubSeq(sorted, 1, Len(sorted) - 1), m),
                sorted[Len(sorted)])

\* line 81: movers.sort(key=lambda x: -abs(x["delta"])), a stable sort
RECURSIVE sort_movers(_, _)
sort_movers(movers, n) ==
    IF n = 0 THEN <<>>
    ELSE With(sort_movers(movers, n - 1),
              LAMBDA sorted : InsertMover(sorted, movers[n]))

\* top_movers without the slice
top_movers_all(movers) == movers

\* line 82: movers[:10]
top_movers(movers) ==
    SubSeq(movers, 1, IF Len(movers) < MoverLimit
                      THEN Len(movers) ELSE MoverLimit)

\* analyze_date_pair_movers, lines 50-82
analyze_date_pair_movers(files, chart, platform, today_str, yesterday_str) ==
    With(<<load_rank(files, today_str, chart, platform),
           load_rank(files, yesterday_str, chart, platform)>>,
         LAMBDA data :
             IF ~data[1].found \/ ~data[2].found THEN <<>>
             ELSE With(collect_movers(data[1].rows, RankMap(data[2].rows)),
                       LAMBDA movers :
                           top_movers(sort_movers(movers, Len(movers)))))

PLATFORMS == <<"ios", "gp">>

TARGET_CHARTS == <<"top_grossing", "top_free">>

\* lines 102-117: the units of one country in the order the loops visit
\* them, each <<today_str, yesterday_str, platform, chart>>
MoverUnits(date_list) ==
    [n \in 1..((Len(date_list) - 1) * Len(PLATFORMS) * Len(TARGET_CHARTS)) |->
        With(<<((n - 1) \div (Len(PLATFORMS) * Len(TARGET_CHARTS))) + 1,
               (((n - 1) \div Len(TARGET_CHARTS)) % Len(PLATFORMS)) + 1,
               ((n - 1) % Len(TARGET_CHARTS)) + 1>>,
             LAMBDA at : <<date_list[at[1]], date_list[at[1] + 1],
                           PLATFORMS[at[2]], TARGET_CHARTS[at[3]]>>)]

\* lines 117-124: one unit
movers_unit(results, files, unit) ==
    With(analyze_date_pair_movers(files, unit[4], unit[3], unit[1], unit[2]),
         LAMBDA movers :
             IF movers # <<>>
             THEN Put(results, <<unit[1], unit[3], unit[4]>>, movers)
             ELSE results)

RECURSIVE movers_loop(_, _, _)
movers_loop(files, units, n) ==
    IF n = 0 THEN EmptyMap
    ELSE With(movers_loop(files, units, n - 1),
              LAMBDA results : movers_unit(results, files, units[n]))

\* movers_main with a run that a missing or unparseable snapshot ends
\* before anything is written
movers_main_gap_aborts(date_list, files) ==
    IF Len(date_list) < 2 THEN EmptyMap
    ELSE With(MoverUnits(date_list),
              LAMBDA units :
                  IF \E n \in 1..Len(units) :
                         \/ ~load_rank(files, units[n][1], units[n][4],
                                       units[n][3]).found
                         \/ ~load_rank(files, units[n][2], units[n][4],
                                       units[n][3]).found
                  THEN EmptyMap
                  ELSE movers_loop(files, units, Len(units)))

\* main, lines 84-145, for one country: the movers files it writes
movers_main(date_list, files) ==
    IF Len(date_list) < 2 THEN EmptyMap
    ELSE With(MoverUnits(date_list),
              LAMBDA units : movers_loop(files, units, Len(units)))

----------------------------------------------------------------------------
(* analyze_rank_movers.py as a state machine *)

MoverApps == 25

MaxRankFiles == 3

SnapshotDates == {20250101, 20250102}

MRow(app, rank) ==
    [app_id |-> app, app_name |-> <<"name", app>>, rank |-> rank]

\* app p at rank p
Ladder == [p \in 1..MoverApps |-> MRow(p, p)]

\* the ladder upside down
Reversed == [p \in 1..MoverApps |-> MRow(MoverApps + 1 - p, p)]

\* against the ladder: 5 fell by 9, 25 rose by 10, 15 fell by 10 (rank 15 to
\* rank 25), 99 is new, 20 has no rank (rank 0, sorted last by ingestion)
Mixed == <<MRow(5, 14), MRow(25, 15), MRow(15, 25), MRow(99, 26), MRow(20, 0)>>

\* what a snapshot file may hold; ok = FALSE: not parseable
FileContents ==
    {[ok |-> TRUE, rows |-> Ladder], [ok |-> TRUE, rows |-> Reversed],
     [ok |-> TRUE, rows |-> Mixed], [ok |-> FALSE, rows |-> <<>>]}

RankFileKeys ==
    {<<PLATFORMS[p], TARGET_CHARTS[c], d>> :
        p \in 1..Len(PLATFORMS), c \in 1..Len(TARGET_CHARTS), d \in SnapshotDates}

MoversIdle ==
    /\ all_results = EmptyMap
    /\ moversRun = "idle"

InitMovers ==
    /\ available_dates \in {SortedDesc(S) : S \in SUBSET SnapshotDates}
    /\ \E K \in SUBSET RankFileKeys :
           /\ Cardinality(K) <= MaxRankFiles
           /\ rank_files \in [K -> FileContents]
    /\ MoversIdle

\* one run of analyze_rank_movers.py
MoversMain ==
    /\ moversRun = "idle"
    /\ all_results' = movers_main(available_dates, rank_files)
    /\ moversRun' = "done"
    /\ UNCHANGED notMoversVars

NextMovers == MoversMain

----------------------------------------------------------------------------
(* fetch_app_updates.py                                                   *)

TOP_LIMIT == 50

CHARTS == <<"top_grossing", "top_free">>

\* load_rank_data, lines 59-64: read_json gives {} for a missing file and
\* for one it cannot parse
load_rank_data(files, date_str, chart, platform) ==
    IF <<platform, chart, date_str>> \notin DOMAIN files THEN NoData
    ELSE IF ~files[<<platform, chart, date_str>>].ok THEN NoData
    ELSE [found |-> TRUE, rows |-> files[<<platform, chart, date_str>>].rows]

\* top_rows without the slice
top_rows_all(rows) == rows

\* line 127: rows[:TOP_LIMIT]
top_rows(rows) ==
    SubSeq(rows, 1, IF Len(rows) < TOP_LIMIT THEN Len(rows) ELSE TOP_LIMIT)

\* lines 124-131: the items of union_apps in insertion order (the app_ids
\* of a snapshot differ, so each row adds an item)
union_apps_of(rows) ==
    With(top_rows(rows),
         LAMBDA top : [i \in 1..Len(top) |-> <<top[i].app_id, top[i].app_name>>])

NoInfo == [ok |-> FALSE, version |-> "", updated |-> ""]

\* fetch_ios_metadata, lines 66-90; lookup: what the service answers for
\* each app_id, ok = FALSE for a status other than 200, no result or an
\* exception
fetch_ios_metadata(lookup, app_id) ==
    IF ~lookup[app_id].ok THEN [found |-> FALSE, info |-> NoInfo]
    ELSE [found |-> TRUE,
          info |-> [version |-> lookup[app_id].version,
                    updated |-> lookup[app_id].updated,
                    releaseNotes |-> "", app_id |-> app_id]]

\* lines 142-159: today_data; a later item replaces an earlier one of the
\* same app_name, and only ios has a lookup
fetch_today_data(lookup, platform, union_apps) ==
    IF platform # "ios" THEN EmptyMap
    ELSE With({i \in 1..Len(union_apps) :
                  fetch_ios_metadata(lookup, union_apps[i][1]).found},
              LAMBDA got :
                  [app_name \in {union_apps[i][2] : i \in got} |->
                      fetch_ios_metadata(lookup,
                          union_apps[CHOOSE i \in got :
                              /\ union_apps[i][2] = app_name
                              /\ \A j \in got :
                                     j > i => union_apps[j][2] # app_name][1]
                      ).info])

\* lines 107-108
update_event(today_info) ==
    [version |-> today_info.version, updated |-> today_info.updated,
     releaseNotes |-> today_info.releaseNotes, app_id |-> today_info.app_id,
     event |-> "VersionUpdate"]

\* detect_updates, lines 92-109
detect_updates(today_data, yesterday_data) ==
    [app_name \in
        {n \in DOMAIN today_data :
            /\ n \in DOMAIN yesterday_data
            /\ \/ today_data[n].version # yesterday_data[n].version
               \/ today_data[n].updated # yesterday_data[n].updated} |->
        update_event(today_data[app_name])]

\* lines 138-139: the baseline, read from updates_<yday>.json
yesterday_update_data(upd_files, platform, chart, yday_str) ==
    IF <<yday_str, platform, chart>> \in DOMAIN upd_files
    THEN upd_files[<<yday_str, platform, chart>>]
    ELSE EmptyMap

NoPair == [updates |-> EmptyMap, today_data |-> EmptyMap]

\* process_date_pair, lines 111-165
process_date_pair(files, upd_files, lookup, platform, chart, today_str, yday_str) ==
    With(<<load_rank_data(files, today_str, chart, platform),
           load_rank_data(files, yday_str, chart, platform)>>,
         LAMBDA data :
             IF ~data[1].found \/ ~data[2].found THEN NoPair
             ELSE With(union_apps_of(data[1].rows),
                       LAMBDA union_apps :
                           IF union_apps = <<>> THEN NoPair
                           ELSE With(fetch_today_data(lookup, platform,
                                                      union_apps),
                                     LAMBDA today_data :
                                         [updates |->
                                              detect_updates(today_data,
                                                  yesterday_update_data(
                                                      upd_files, platform,
                                                      chart, yday_str)),
                                          today_data |-> today_data])))

\* lines 190-198: the units of one country in the order the loops visit
\* them, each <<today_str, yday_str, platform, chart>>; line 190 is
\* range(min(1, len(dates) - 1))
UpdateUnits(date_list) ==
    [n \in 1..((IF Len(date_list) - 1 < 1 THEN Len(date_list) - 1 ELSE 1)
                  * Len(PLATFORMS) * Len(CHARTS)) |->
        With(<<((n - 1) \div (Len(PLATFORMS) * Len(CHARTS))) + 1,
               (((n - 1) \div Len(CHARTS)) % Len(PLATFORMS)) + 1,
               ((n - 1) % Len(CHARTS)) + 1>>,
             LAMBDA at : <<date_list[at[1]], date_list[at[1] + 1],
                           PLATFORMS[at[2]], CHARTS[at[3]]>>)]

\* lines 201-212: one unit; visited lists the units handled so far
updates_unit(acc, files, upd_files, lookup, unit) ==
    With(process_date_pair(files, upd_files, lookup, unit[3], unit[4],
                           unit[1], unit[2]),
         LAMBDA pair :
             [all_results |->
                  IF pair.updates # EmptyMap
                  THEN Put(acc.all_results, <<unit[1], unit[3], unit[4]>>,
                           pair.updates)
                  ELSE acc.all_results,
              all_metadata |->
                  IF pair.today_data # EmptyMap
                  THEN Put(acc.all_metadata, <<unit[1], unit[3], unit[4]>>,
                           pair.today_data)
                  ELSE acc.all_metadata,
              visited |-> Append(acc.visited, unit)])

RECURSIVE updates_loop(_, _, _, _, _)
updates_loop(files, upd_files, lookup, units, n) ==
    IF n = 0
    THEN [all_results |-> EmptyMap, all_metadata |-> EmptyMap,
          visited |-> <<>>]
    ELSE With(updates_loop(files, upd_files, lookup, units, n - 1),
              LAMBDA acc : updates_unit(acc, files, upd_files, lookup,
                                        units[n]))

\* main, lines 167-212, for one country other than CN
updates_main(date_list, files, upd_files, lookup) ==
    IF Len(date_list) < 2
    THEN [all_results |-> EmptyMap, all_metadata |-> EmptyMap,
          visited |-> <<>>]
    ELSE With(UpdateUnits(date_list),
              LAMBDA units :
                  updates_loop(files, upd_files, lookup, units, Len(units)))

\* lines 218-242: the file of each date that has entries is written anew
write_dated(old_files, entries) ==
    [k \in {x \in DOMAIN old_files :
               \A y \in DOMAIN entries : y[1] # x[1]} \cup DOMAIN entries |->
        IF k \in DOMAIN entries THEN entries[k] ELSE old_files[k]]

----------------------------------------------------------------------------
(* fetch_app_updates.py as a state machine *)

UpdateApps == 52

\* app p at rank p; the last app carries the name of the first
TopChart ==
    [p \in 1..UpdateApps |->
        IF p = UpdateApps
        THEN [app_id |-> p, app_name |-> <<"name", 1>>, rank |-> p]
        ELSE MRow(p, p)]

Meta(version, updated) ==
    [ok |-> TRUE, version |-> version, updated |-> updated]

\* the apps the lookup may fail for or report a change of: the first, the
\* last inside TOP_LIMIT and the first outside
Watched == {1, TOP_LIMIT, TOP_LIMIT + 1}

Lookups ==
    {[a \in 1..UpdateApps |->
         IF a = 1 THEN x
         ELSE IF a = TOP_LIMIT THEN y
         ELSE IF a = TOP_LIMIT + 1 THEN z
         ELSE Meta("1.0", "t0")] :
        x \in {NoInfo, Meta("1.0", "t0"), Meta("1.1", "t0")},
        y \in {NoInfo, Meta("1.0", "t0"), Meta("1.0", "t1")},
        z \in {Meta("1.0", "t0"), Meta("1.1", "t0")}}

\* the events an earlier run may have left in updates_<yday>.json
Baselines ==
    {[n \in {<<"name", a>> : a \in S} |->
         [version |-> "1.0", updated |-> "t0", releaseNotes |-> "",
          app_id |-> n[2], event |-> "VersionUpdate"]] :
        S \in SUBSET Watched}

\* the dates of the snapshots, oldest first
UpdateDates == <<20250101, 20250102, 20250103>>

\* the index after the first k of them were ingested
UpdateDateLists ==
    {[i \in 1..k |-> UpdateDates[k + 1 - i]] : k \in 0..Len(UpdateDates)}

\* the snapshot files there may be: of the dates in the index
UpdateFileKeys(date_list) ==
    {<<PLATFORMS[p], CHARTS[c], d>> :
        p \in 1..Len(PLATFORMS), c \in 1..Len(CHARTS), d \in Range(date_list)}

\* the files of the runs before this one: of every date of the index but
\* the newest, for ios (no run has metadata or events for gp)
EarlierRunKeys(date_list) ==
    {<<date_list[i], "ios", CHARTS[c]>> :
        i \in 2..Len(date_list), c \in 1..Len(CHARTS)}

\* metadata_cache_<date>.json of an earlier run that left the events
\* `based`: the rows of its top 50 and the apps of its events, as looked up
PersistedMetadata(based) ==
    [n \in {<<"name", a>> : a \in 1..TOP_LIMIT} \cup DOMAIN based |->
        [version |-> "1.0", updated |-> "t0", releaseNotes |-> "",
         app_id |-> n[2]]]

UpdatesIdle ==
    /\ update_files = EmptyMap
    /\ metadata_files = EmptyMap
    /\ update_results = EmptyMap
    /\ lookups = EmptyMap
    /\ update_units = <<>>
    /\ updatesRun = "idle"

InitUpdates ==
    /\ available_dates \in UpdateDateLists
    /\ \E K \in SUBSET UpdateFileKeys(available_dates) :
           /\ Cardinality(K) <= MaxRankFiles
           /\ rank_files = [k \in K |-> [ok |-> TRUE, rows |-> TopChart]]
    /\ \E based \in Baselines :
           /\ update_files =
                  [k \in EarlierRunKeys(available_dates) |-> based]
           /\ metadata_files =
                  [k \in EarlierRunKeys(available_dates) |->
                      PersistedMetadata(based)]
    /\ update_results = EmptyMap
    /\ lookups = EmptyMap
    /\ update_units = <<>>
    /\ updatesRun = "idle"

\* one run of fetch_app_updates.py
UpdatesMain ==
    /\ updatesRun = "idle"
    /\ \E lookup \in Lookups :
        \E r \in {updates_main(available_dates, rank_files, update_files,
                               lookup)} :
            /\ update_results' = r.all_results
            /\ update_files' = write_dated(update_files, r.all_results)
            /\ metadata_files' = write_dated(metadata_files, r.all_metadata)
            /\ lookups' = lookup
            /\ update_units' = r.visited
    /\ updatesRun' = "done"
    /\ UNCHANGED notUpdatesVars

NextUpdates == UpdatesMain

----------------------------------------------------------------------------
(* Specifications: each script on its own, the others not run             *)

\* the classification scripts have not run and there is nothing to classify
ClassifyIdle ==
    /\ game_types = EmptyMap
    /\ overrides = EmptyMap
    /\ replaced = {}
    /\ layout = <<>>
    /\ classified = EmptyMap
    /\ aiCalls = [a \in AppIds |-> 0]
    /\ runs = 0
    /\ lastRun = NoRun

\* the analysis scripts have nothing to read
NoAnalysisFiles ==
    /\ rank_files = EmptyMap
    /\ available_dates = <<>>

ClassifyStart ==
    InitClassify /\ InitIngest /\ NoAnalysisFiles /\ MoversIdle /\ UpdatesIdle

IngestStart ==
    ClassifyIdle /\ InitIngest /\ NoAnalysisFiles /\ MoversIdle /\ UpdatesIdle

MoversStart == ClassifyIdle /\ InitIngest /\ InitMovers /\ UpdatesIdle

UpdatesStart == ClassifyIdle /\ InitIngest /\ InitUpdates /\ MoversIdle

SpecClassify == ClassifyStart /\ [][NextClassify]_vars

SpecIngest == IngestStart /\ [][NextIngest]_vars

IndexStart ==
    ClassifyIdle /\ InitIndex /\ NoAnalysisFiles /\ MoversIdle /\ UpdatesIdle

SpecIndex == IndexStart /\ [][NextIngest]_vars

SpecMovers == MoversStart /\ [][NextMovers]_vars

SpecUpdates == UpdatesStart /\ [][NextUpdates]_vars

----------------------------------------------------------------------------
(* Properties of the classification scripts *)

\* the rows the latest classify run assigned a category to
AssignedRows ==
    UNION {{classified[k][i] : i \in 1..Len(classified[k])} :
           k \in DOMAIN classified}

Classified == lastRun.kind \in {"ai", "heuristic"}

(* C1: override precedence.  After a classify run (either script), every  *)
(* row whose app_id is in the override map that the latest sync merged    *)
(* carries the override value, whatever the cache held for that app_id    *)
(* before the sync and whatever the heuristic returns for the app.        *)
C1_OverridePrecedence ==
    Classified =>
        \A r \in AssignedRows :
            r.app_id \in DOMAIN overrides => r.ai_type = overrides[r.app_id]

\* the external classifier classified W, the run cached its answer, a sync
\* then replaced that entry with the override, and a classify run followed
C1_Witness ==
    /\ Classified
    /\ aiCalls["W"] >= 1
    /\ "W" \in replaced
    /\ overrides["W"] = "CasualPuzzle"
    /\ \E r \in AssignedRows :
           /\ r.app_id = "W"
           /\ r.ai_type = "CasualPuzzle"
           /\ classify_game(r) # "CasualPuzzle"

(* C2: after classification every row's ai_type is one of the seven       *)
(* categories of AI_CATEGORIES, whichever path produced it.               *)
C2_AiTypeInCategorySet ==
    Classified => \A r \in AssignedRows : r.ai_type \in CategorySet

(* C9: over any sequence of classify runs that share game_types.json the  *)
(* external classifier is called at most once per app_id.                 *)
C9_ClassifiedAtMostOnce == \A a \in AppIds : aiCalls[a] <= 1

(* C10: a classify run that directly follows another one, on the same     *)
(* snapshots and the game_types.json that run left, assigns the same      *)
(* categories, adds no entry to the cache and does not write it back.     *)
C10_IdempotentRerun ==
    lastRun.rerun =>
        /\ lastRun.same
        /\ lastRun.added = {}
        /\ ~lastRun.saved

----------------------------------------------------------------------------
(* Properties of the ingestion                                            *)

Ingested == lastIngest.platform # None

\* the snapshot the last IngestGroup wrote
LastRows == ranks[<<lastIngest.platform, lastIngest.date>>]

\* the dates of the index, as the last IngestGroup found it, that are
\* earlier than the date it ingested
EarlierDates == {x \in Range(lastIngest.date_list) : x < lastIngest.date}

\* the predecessor date: the latest of the earlier dates
PredDate == CHOOSE x \in EarlierDates : \A y \in EarlierDates : y <= x

\* the predecessor snapshot exists; IngestGroup writes the file of the
\* ingested date only, so the file is the one the step read
HasPred ==
    /\ Ingested
    /\ EarlierDates # {}
    /\ <<lastIngest.platform, PredDate>> \in DOMAIN ranks

PredRows == ranks[<<lastIngest.platform, PredDate>>]

RowsOf(rows, app_id) == {i \in 1..Len(rows) : rows[i].app_id = app_id}

\* the delta of predecessor row p were the roles of the snapshots swapped:
\* p freshly ingested, the last snapshot its predecessor
SwappedDelta(p) == row_delta(RankMap(LastRows), [p EXCEPT !.delta = 0])

(* C3 as stated: for every app_id in both the snapshot and its            *)
(* predecessor, delta = predecessor rank - current rank, swapping the two  *)
(* snapshots negates it, and an app_id absent from the predecessor has     *)
(* delta 0.                                                                *)
C3_DeltaAsStated ==
    HasPred =>
        \A i \in 1..Len(LastRows) :
            IF RowsOf(PredRows, LastRows[i].app_id) = {}
            THEN LastRows[i].delta = 0
            ELSE \A j \in RowsOf(PredRows, LastRows[i].app_id) :
                    /\ LastRows[i].delta = PredRows[j].rank - LastRows[i].rank
                    /\ SwappedDelta(PredRows[j]) = -LastRows[i].delta

(* C3 amended: the same for every app_id that has a rank in both          *)
(* snapshots; a row without a rank (rank 0) or whose predecessor row has  *)
(* none keeps delta 0, as does an app_id absent from the predecessor.     *)
C3_DeltaOfRanked ==
    HasPred =>
        \A i \in 1..Len(LastRows) :
            IF RowsOf(PredRows, LastRows[i].app_id) = {}
            THEN LastRows[i].delta = 0
            ELSE \A j \in RowsOf(PredRows, LastRows[i].app_id) :
                    IF PredRows[j].rank # 0 /\ LastRows[i].rank # 0
                    THEN /\ LastRows[i].delta
                                = PredRows[j].rank - LastRows[i].rank
                         /\ SwappedDelta(PredRows[j]) = -LastRows[i].delta
                    ELSE /\ LastRows[i].delta = 0
                         /\ SwappedDelta(PredRows[j]) = 0

\* one snapshot in which a row moved against a ranked predecessor row, a
\* row is absent from the predecessor, and a row's predecessor has no rank
C3_Witness ==
    /\ HasPred
    /\ \E i \in 1..Len(LastRows), j \in 1..Len(PredRows) :
           /\ LastRows[i].app_id = PredRows[j].app_id
           /\ PredRows[j].rank = 1 /\ LastRows[i].rank = 2
           /\ LastRows[i].delta = -1
           /\ SwappedDelta(PredRows[j]) = 1
    /\ \E i \in 1..Len(LastRows) :
           /\ RowsOf(PredRows, LastRows[i].app_id) = {}
           /\ LastRows[i].delta = 0
    /\ \E i \in 1..Len(LastRows), j \in 1..Len(PredRows) :
           /\ LastRows[i].app_id = PredRows[j].app_id
           /\ PredRows[j].rank = 0 /\ LastRows[i].rank # 0
           /\ LastRows[i].delta = 0

(* C4: when the date index holds no date earlier than the ingested one,   *)
(* every row of the ingested snapshot has delta 0.                        *)
C4_NoPredecessorNoDelta ==
    (Ingested /\ EarlierDates = {}) =>
        \A i \in 1..Len(LastRows) : LastRows[i].delta = 0

\* the index held later dates only, and a later snapshot of the platform
\* ranks an app of the ingested snapshot differently
C4_Witness ==
    /\ Ingested
    /\ EarlierDates = {}
    /\ lastIngest.date_list # <<>>
    /\ \E d \in Range(lastIngest.date_list) :
           /\ d > lastIngest.date
           /\ <<lastIngest.platform, d>> \in DOMAIN ranks
           /\ \E i \in 1..Len(LastRows) :
                  \E j \in RowsOf(ranks[<<lastIngest.platform, d>>],
                                  LastRows[i].app_id) :
                      /\ LastRows[i].rank # 0
                      /\ ranks[<<lastIngest.platform, d>>][j].rank
                             \notin {0, LastRows[i].rank}

----------------------------------------------------------------------------
(* Properties of the mover extraction                                     *)

MoversDone == moversRun = "done"

\* the date pairs, platforms and charts the run went through
PairUnits ==
    {<<i, PLATFORMS[p], TARGET_CHARTS[c]>> :
        i \in 1..(Len(available_dates) - 1),
        p \in 1..Len(PLATFORMS), c \in 1..Len(TARGET_CHARTS)}

Readable(platform, chart, date_str) ==
    /\ <<platform, chart, date_str>> \in DOMAIN rank_files
    /\ rank_files[<<platform, chart, date_str>>].ok

BothReadable(u) ==
    /\ Readable(u[2], u[3], available_dates[u[1]])
    /\ Readable(u[2], u[3], available_dates[u[1] + 1])

TodayRows(u) == rank_files[<<u[2], u[3], available_dates[u[1]]>>].rows

YesterdayRows(u) == rank_files[<<u[2], u[3], available_dates[u[1] + 1]>>].rows

\* the mover list the run recorded for a unit
MoversOf(u) ==
    IF <<available_dates[u[1]], u[2], u[3]>> \in DOMAIN all_results
    THEN all_results[<<available_dates[u[1]], u[2], u[3]>>]
    ELSE <<>>

(* C5: every mover list has at most 10 records, every record has          *)
(* |delta| >= 10, and the records are in order of non-increasing |delta|. *)
C5_MoversBounded ==
    MoversDone =>
        \A u \in PairUnits :
            /\ Len(MoversOf(u)) <= 10
            /\ \A i \in 1..Len(MoversOf(u)) : Abs(MoversOf(u)[i].delta) >= 10
            /\ \A i, j \in 1..Len(MoversOf(u)) :
                   i < j => Abs(MoversOf(u)[i].delta)
                                >= Abs(MoversOf(u)[j].delta)

\* the rank of app_id in the predecessor snapshot
PredRank(u, app_id) ==
    YesterdayRows(u)[CHOOSE j \in 1..Len(YesterdayRows(u)) :
                         YesterdayRows(u)[j].app_id = app_id].rank

InBoth(u, i) == RowsOf(YesterdayRows(u), TodayRows(u)[i].app_id) # {}

DeltaOf(u, i) == PredRank(u, TodayRows(u)[i].app_id) - TodayRows(u)[i].rank

\* the rows of the current snapshot that are movers
Qualifying(u) ==
    {i \in 1..Len(TodayRows(u)) : InBoth(u, i) /\ Abs(DeltaOf(u, i)) >= 10}

\* the delta of every row of the current snapshot, 0 for a row not in both
DeltasOf(u) ==
    [i \in 1..Len(TodayRows(u)) |-> IF InBoth(u, i) THEN DeltaOf(u, i) ELSE 0]

\* the place of mover row i among the mover rows Q: behind every mover
\* with a larger |delta| and every mover with the same |delta| that stands
\* before it in the snapshot
PlaceOf(delta, Q, i) ==
    1 + Cardinality({k \in Q :
                        \/ Abs(delta[k]) > Abs(delta[i])
                        \/ Abs(delta[k]) = Abs(delta[i]) /\ k < i})

(* C6: the mover list of two readable snapshots is exactly the apps in    *)
(* both with |predecessor rank - current rank| >= 10, by descending       *)
(* |delta|, ties in the order of the current snapshot's rows (rank order  *)
(* as ingestion writes them), cut to the first 10; direction is "rise"    *)
(* iff delta > 0 and "fall" otherwise.                                    *)
C6_MoversExact ==
    MoversDone =>
        \A u \in PairUnits :
            BothReadable(u) =>
                \E delta \in {DeltasOf(u)}, Q \in {Qualifying(u)} :
                    /\ Len(MoversOf(u)) =
                           (IF Cardinality(Q) < 10 THEN Cardinality(Q) ELSE 10)
                    /\ \A i \in Q :
                           \E place \in {PlaceOf(delta, Q, i)} :
                               place <= 10 =>
                                   MoversOf(u)[place] =
                                       [name |-> TodayRows(u)[i].app_name,
                                        delta |-> delta[i],
                                        direction |-> IF delta[i] > 0
                                                      THEN "rise" ELSE "fall"]

(* C7: a unit whose current or predecessor snapshot is missing or not     *)
(* readable gets the empty mover list, and the run goes on: every other   *)
(* unit that has movers has them recorded.                                *)
C7_GapGivesEmpty ==
    MoversDone =>
        \A u \in PairUnits :
            IF BothReadable(u)
            THEN Qualifying(u) # {} => MoversOf(u) # <<>>
            ELSE /\ MoversOf(u) = <<>>
                 /\ analyze_date_pair_movers(rank_files, u[3], u[2],
                        available_dates[u[1]], available_dates[u[1] + 1]) = <<>>

\* more than 10 movers were cut to 10, with a tie and a strict step
C5_Witness ==
    /\ MoversDone
    /\ \E u \in PairUnits :
           /\ BothReadable(u)
           /\ Cardinality(Qualifying(u)) > 10
           /\ Len(MoversOf(u)) = 10
           /\ \E i \in 1..9 :
                  Abs(MoversOf(u)[i].delta) = Abs(MoversOf(u)[i + 1].delta)
           /\ \E i \in 1..9 :
                  Abs(MoversOf(u)[i].delta) > Abs(MoversOf(u)[i + 1].delta)

\* rank 15 to rank 25 is a mover with delta -10, placed behind the rise by
\* 10 that stands before it; a fall by 9 and a new app are no movers
C6_Witness ==
    /\ MoversDone
    /\ \E u \in PairUnits :
           /\ BothReadable(u)
           /\ \E n \in 2..Len(MoversOf(u)) :
                  /\ MoversOf(u)[n].delta = -10
                  /\ MoversOf(u)[n].direction = "fall"
                  /\ MoversOf(u)[n - 1].delta = 10
                  /\ MoversOf(u)[n - 1].direction = "rise"
           /\ \E i \in 1..Len(TodayRows(u)) :
                  InBoth(u, i) /\ Abs(DeltaOf(u, i)) = 9
           /\ \E i \in 1..Len(TodayRows(u)) : ~InBoth(u, i)
           /\ \E i \in 1..Len(TodayRows(u)) :
                  /\ TodayRows(u)[i].rank = 15
                  /\ InBoth(u, i)
                  /\ PredRank(u, TodayRows(u)[i].app_id) = 25

\* the ios unit has an unparseable current and no predecessor snapshot, and
\* the gp unit the loop visits after it has its movers recorded
C7_Witness ==
    /\ MoversDone
    /\ \E u \in PairUnits :
           /\ u[2] = "ios"
           /\ <<u[2], u[3], available_dates[u[1]]>> \in DOMAIN rank_files
           /\ ~rank_files[<<u[2], u[3], available_dates[u[1]]>>].ok
           /\ <<u[2], u[3], available_dates[u[1] + 1]>> \notin DOMAIN rank_files
           /\ MoversOf(u) = <<>>
    /\ \E u \in PairUnits :
           /\ u[2] = "gp"
           /\ BothReadable(u)
           /\ MoversOf(u) # <<>>

----------------------------------------------------------------------------
(* Properties of the update detection                                     *)

UpdatesDone == updatesRun = "done"

\* the first 50 rows of the current snapshot of an emitted entry
\* k = <<today_str, platform, chart>>
First50(k) ==
    {rank_files[<<k[2], k[3], k[1]>>].rows[i] :
        i \in 1..(IF Len(rank_files[<<k[2], k[3], k[1]>>].rows) < 50
                  THEN Len(rank_files[<<k[2], k[3], k[1]>>].rows) ELSE 50)}

\* the baseline the run compared the entry against: the file of the date
\* after today_str in the index; the run writes the file of today_str only
BaselineOf(k) ==
    yesterday_update_data(update_files, k[2], k[3],
        available_dates[IndexOf(available_dates, k[1]) + 1])

(* C8: every update event the run emits is for an app among the first 50  *)
(* rows of the current snapshot, under an app_name that has an entry in   *)
(* the baseline the run compared against.                                 *)
C8_EventsTop50WithBaseline ==
    UpdatesDone =>
        \A k \in DOMAIN update_results :
            \A n \in DOMAIN update_results[k] :
                /\ \E r \in First50(k) :
                       /\ r.app_id = update_results[k][n].app_id
                       /\ r.app_name = n
                /\ n \in DOMAIN BaselineOf(k)

\* an event for the app of row 50; the app of row 51 has a baseline entry
\* and a changed version and no event; the app of row 1 was looked up, has
\* no baseline entry and no event
C8_Witness ==
    /\ UpdatesDone
    /\ \E k \in DOMAIN update_results :
           /\ <<"name", 50>> \in DOMAIN update_results[k]
           /\ update_results[k][<<"name", 50>>].app_id = 50
           /\ <<"name", 51>> \in DOMAIN BaselineOf(k)
           /\ lookups[51].version # BaselineOf(k)[<<"name", 51>>].version
           /\ <<"name", 51>> \notin DOMAIN update_results[k]
           /\ <<"name", 1>> \in DOMAIN metadata_files[k]
           /\ <<"name", 1>> \notin DOMAIN BaselineOf(k)
           /\ <<"name", 1>> \notin DOMAIN update_results[k]

----------------------------------------------------------------------------
(* Properties of the date index                                           *)

\* the 50 most recent of the dates ever inserted
MostRecent50 ==
    {d \in inserted : Cardinality({x \in inserted : x > d}) < 50}

(* C11: the date index is strictly descending (so without duplicates),    *)
(* has at most 50 entries, which are the 50 most recent dates ever        *)
(* inserted, and inserting a date it already holds leaves it unchanged.   *)
C11_DateIndex ==
    /\ \A i, j \in 1..Len(dates) : i < j => dates[i] > dates[j]
    /\ Len(dates) <= 50
    /\ Range(dates) = MostRecent50
    /\ (Ingested /\ lastIngest.date \in Range(lastIngest.date_list))
           => dates = lastIngest.date_list

\* more than 50 dates were inserted, the index is at its cap and has lost
\* a date, and the last insertion was of a date the index held
C11_Witness ==
    /\ Ingested
    /\ Cardinality(inserted) > 50
    /\ Len(dates) = 50
    /\ 20250101 \in inserted \ Range(dates)
    /\ lastIngest.date \in Range(lastIngest.date_list)
    /\ Len(lastIngest.date_list) = 50

----------------------------------------------------------------------------
(* Further properties of the classification scripts                       *)

(* C12: an app whose external classifier call failed in a run of          *)
(* classify_games.py is classified by the external classifier again in    *)
(* the run that follows it.                                               *)
C12_FailureRetried == lastRun.rerun => lastRun.retried

(* C13: no exception raised inside one unit of work (here: one folder of  *)
(* data/ranks in a run of classify_games.py) leaves main and ends the run *)
(* before the remaining units are processed and the cache is saved.       *)
C13_NoExceptionEndsRun == ~lastRun.raised

(* C14: a run of classify_games.py changes and removes no entry that      *)
(* game_types.json held when the run started (an override entry           *)
(* included), neither in its in-memory cache nor in the file it leaves:   *)
(* it only adds entries for app_ids that were absent.                     *)
C14_CacheEntriesKept == lastRun.kind = "ai" => lastRun.kept

\* a run that found the override entry of W in the cache, asked the
\* external classifier about V, added V and saved the cache
C14_Witness ==
    /\ lastRun.kind = "ai"
    /\ lastRun.saved
    /\ lastRun.added = {"V"}
    /\ "W" \in DOMAIN overrides
    /\ "W" \in DOMAIN game_types
    /\ game_types["W"] = overrides["W"]
    /\ game_types["W"] # "Other"

(* C18: a run of classify_games.py writes game_types.json at most once,   *)
(* at its end (so not in a run an exception ended), and only if the run   *)
(* added at least one entry to its in-memory cache; the file then holds   *)
(* the entries added.                                                     *)
C18_SavedOnlyWithNewEntry ==
    (lastRun.kind = "ai" /\ lastRun.saved) =>
        /\ lastRun.added # {}
        /\ ~lastRun.raised
        /\ lastRun.added \subseteq DOMAIN game_types

\* a run that classified both apps and saved the cache
C18_Witness ==
    /\ lastRun.kind = "ai"
    /\ lastRun.saved
    /\ lastRun.added = {"W", "V"}
    /\ DOMAIN game_types = {"W", "V"}

----------------------------------------------------------------------------
(* Further properties of the update detection                             *)

\* the units of the run, as a set
UnitsDone == Range(update_units)

\* the units for which process_date_pair found both snapshots and looked
\* the apps up
ComparedUnits ==
    {u \in UnitsDone :
        /\ u[3] = "ios"
        /\ load_rank_data(rank_files, u[1], u[4], u[3]).found
        /\ load_rank_data(rank_files, u[2], u[4], u[3]).found}

\* metadata_cache_<yesterday>.json of unit u, the baseline an earlier run
\* persisted; this run writes the file of the unit's today only
PersistedBaseline(u) ==
    IF <<u[2], u[3], u[4]>> \in DOMAIN metadata_files
    THEN metadata_files[<<u[2], u[3], u[4]>>]
    ELSE EmptyMap

\* the apps of the first 50 rows of unit u's current snapshot whose looked
\* up version or timestamp differs from the persisted baseline
ChangedSincePersisted(u) ==
    {r \in First50(<<u[1], u[3], u[4]>>) :
        /\ lookups[r.app_id].ok
        /\ r.app_name \in DOMAIN PersistedBaseline(u)
        /\ \/ lookups[r.app_id].version #
                  PersistedBaseline(u)[r.app_name].version
           \/ lookups[r.app_id].updated #
                  PersistedBaseline(u)[r.app_name].updated}

(* C15: the run compares against the metadata an earlier run persisted    *)
(* for the predecessor date: every app of the top 50 whose version or     *)
(* updated timestamp, as fetched now, differs from that persisted         *)
(* baseline has an update event among the events of the run.              *)
C15_ChangeSincePersistedEmitted ==
    UpdatesDone =>
        \A u \in ComparedUnits :
            \A r \in ChangedSincePersisted(u) :
                /\ <<u[1], u[3], u[4]>> \in DOMAIN update_results
                /\ r.app_name \in DOMAIN update_results[<<u[1], u[3], u[4]>>]

\* the adjacent pairs of the index
AdjacentPairs ==
    {<<available_dates[i], available_dates[i + 1]>> :
        i \in 1..(Len(available_dates) - 1)}

(* C19: a run of fetch_app_updates.py calls process_date_pair for every   *)
(* adjacent pair of the index, each platform and each chart, as           *)
(* analyze_rank_movers.py does, not for the newest pair only.             *)
C19_EveryAdjacentPairProcessed ==
    UpdatesDone =>
        \A pair \in AdjacentPairs :
            \A p \in 1..Len(PLATFORMS), c \in 1..Len(CHARTS) :
                <<pair[1], pair[2], PLATFORMS[p], CHARTS[c]>> \in UnitsDone

----------------------------------------------------------------------------
(* Further properties of the ingestion                                    *)

\* the dates before the ingested one that have a snapshot of the ingested
\* platform; IngestGroup writes the file of the ingested date only
EarlierSnapshotDates ==
    {d \in Dates : /\ d < lastIngest.date
                   /\ <<lastIngest.platform, d>> \in DOMAIN ranks}

\* the most recent earlier snapshot of the platform
NearestEarlierRows ==
    ranks[<<lastIngest.platform,
            CHOOSE x \in EarlierSnapshotDates :
                \A y \in EarlierSnapshotDates : y <= x>>]

(* C16: whatever the order of the groups and whatever other dates the     *)
(* index holds, each row of the ingested snapshot has the delta against   *)
(* the most recent earlier snapshot of the same platform and chart.       *)
C16_DeltaAgainstNearestSnapshot ==
    (Ingested /\ EarlierSnapshotDates # {}) =>
        \A i \in 1..Len(LastRows) :
            LastRows[i].delta =
                row_delta(RankMap(NearestEarlierRows),
                          [LastRows[i] EXCEPT !.delta = 0])

\* the greatest entry of an index that is strictly less than the date, 0
\* when there is none
GreatestBelow(date_list, date_str) ==
    IF \E x \in Range(date_list) : x < date_str
    THEN CHOOSE x \in Range(date_list) :
             /\ x < date_str
             /\ \A y \in Range(date_list) : y < date_str => y <= x
    ELSE 0

(* C17: the predecessor load_prev_rank settles on is the greatest entry   *)
(* of the index strictly less than the date, never the date itself, and   *)
(* it is the same date whether looked up in the index the group found     *)
(* (before the date was inserted) or in the index the group left (after). *)
C17_SamePredecessorBeforeAndAfter ==
    Ingested =>
        /\ prev_date_of(lastIngest.date_list, lastIngest.date)
               = GreatestBelow(lastIngest.date_list, lastIngest.date)
        /\ prev_date_of(dates, lastIngest.date)
               = GreatestBelow(dates, lastIngest.date)
        /\ prev_date_of(lastIngest.date_list, lastIngest.date)
               # lastIngest.date
        /\ prev_date_of(dates, lastIngest.date)
               = prev_date_of(lastIngest.date_list, lastIngest.date)

============================================================================
